---- MODULE Spec2Model ----
(***************************************************************************)
(* Game-state engine of "Escape the Forgotten Temple": the room graph,     *)
(* the player, the command-to-effect mapping of Game::process_command and  *)
(* the win-condition check.  Texts are TLA+ strings built by real          *)
(* concatenation, and letter case is handled character by character.       *)
(***************************************************************************)
EXTENDS Integers, Sequences, FiniteSets, TLC

VARIABLES
    rooms,        \* Game.rooms: room name -> Room
    exits_iter,   \* iteration order of each room's exits HashMap
    player,       \* Game.player: [location, inventory]
    game_over,    \* Game.game_over
    message,      \* Game.message
    last_cmd,     \* the Command of the latest process_command call (NoCommand
                  \* after an input that did not parse)
    result,       \* the String the driver displayed last: what process_command
                  \* returned, or the parse error
    pc,           \* where the console's main is: in its loop or past it
    user_input,   \* the line the console's main read last, as read_input returns it
    progress      \* history of the run: "start" until a Take of the golden idol
                  \* succeeds in the Guardian Chamber, "taken" from then until a
                  \* Go(North) leads from the Treasure Room into the Temple
                  \* Exit, "entered" after that

vars == <<rooms, exits_iter, player, game_over, message, last_cmd, result, pc, user_input,
          progress>>

-----------------------------------------------------------------------------
(* Strings *)

UpperLetters ==
    <<"A","B","C","D","E","F","G","H","I","J","K","L","M",
      "N","O","P","Q","R","S","T","U","V","W","X","Y","Z">>

LowerLetters ==
    <<"a","b","c","d","e","f","g","h","i","j","k","l","m",
      "n","o","p","q","r","s","t","u","v","w","x","y","z">>

\* char::to_lowercase on one character (ASCII letters)
lower_char(c) ==
    IF \E i \in 1..26 : UpperLetters[i] = c
    THEN LowerLetters[CHOOSE i \in 1..26 : UpperLetters[i] = c]
    ELSE c

RECURSIVE to_lowercase(_)
\* str::to_lowercase
to_lowercase(s) ==
    IF Len(s) = 0 THEN ""
    ELSE lower_char(SubSeq(s, 1, 1)) \o to_lowercase(SubSeq(s, 2, Len(s)))

\* char::is_whitespace (ASCII)
is_whitespace(c) == c \in {" ", "\t", "\n", "\r"}

RECURSIVE trim_start(_)
\* str::trim_start
trim_start(s) ==
    IF Len(s) > 0 /\ is_whitespace(SubSeq(s, 1, 1))
    THEN trim_start(SubSeq(s, 2, Len(s)))
    ELSE s

RECURSIVE trim_end(_)
\* str::trim_end
trim_end(s) ==
    IF Len(s) > 0 /\ is_whitespace(SubSeq(s, Len(s), Len(s)))
    THEN trim_end(SubSeq(s, 1, Len(s) - 1))
    ELSE s

\* str::trim
trim(s) == trim_end(trim_start(s))

RECURSIVE word_len(_)
\* the length of the run of non-whitespace characters s starts with
word_len(s) ==
    IF Len(s) = 0 \/ is_whitespace(SubSeq(s, 1, 1)) THEN 0
    ELSE 1 + word_len(SubSeq(s, 2, Len(s)))

RECURSIVE split_whitespace(_)
\* str::split_whitespace, collected into a Vec
split_whitespace(s) ==
    LET t == trim_start(s) IN
    IF Len(t) = 0 THEN <<>>
    ELSE <<SubSeq(t, 1, word_len(t))>> \o split_whitespace(SubSeq(t, word_len(t) + 1, Len(t)))

RECURSIVE join(_, _)
\* [&str]::join
join(words, sep) ==
    IF Len(words) = 0 THEN ""
    ELSE IF Len(words) = 1 THEN words[1]
    ELSE (words[1] \o sep) \o join(Tail(words), sep)

\* item-name arguments submitted with Take and Use
ItemArgs ==
    {"golden idol", "Golden Idol", "torch", "ancient map", "ceremonial dagger", "gold coin"}

\* to_lowercase of every item name a run compares (the arguments include the
\* fixture's item names), computed once
lowercase == [s \in ItemArgs |-> to_lowercase(s)]

\* a.to_lowercase() == b.to_lowercase()
eq_lowercase(a, b) == lowercase[a] = lowercase[b]

\* str::contains
contains(text, pat) ==
    \E i \in 1..(Len(text) - Len(pat) + 1) :
        SubSeq(text, i, i + Len(pat) - 1) = pat

\* Option<T>: None is <<>>, Some(v) is <<v>>
None == <<>>

Some(v) == <<v>>

-----------------------------------------------------------------------------
(* room.rs *)

Direction == {"North", "East", "South", "West"}

\* Direction::to_string
to_string(direction) ==
    CASE direction = "North" -> "north"
      [] direction = "East"  -> "east"
      [] direction = "South" -> "south"
      [] direction = "West"  -> "west"

\* Direction::from_string
from_string(s) ==
    LET l == to_lowercase(s) IN
    CASE l = "north" -> Some("North")
      [] l = "east"  -> Some("East")
      [] l = "south" -> Some("South")
      [] l = "west"  -> Some("West")
      [] OTHER       -> None

\* Room::new
RoomNew(name, description, is_exit, required_item) ==
    [name          |-> name,
     description   |-> description,
     exits         |-> <<>>,
     items         |-> <<>>,
     is_exit       |-> is_exit,
     required_item |-> required_item]

\* Room::add_exit (HashMap::insert: a later insert of a key replaces it)
add_exit(room, direction, target_room) ==
    [room EXCEPT !.exits =
        [d \in (DOMAIN room.exits) \cup {direction} |->
            IF d = direction THEN target_room ELSE room.exits[d]]]

\* Room::add_item
add_item(room, item) ==
    [room EXCEPT !.items = Append(room.items, item)]

\* the index found by items.iter().position(..) in Room::remove_item, 0 if none
position(items, item) ==
    IF \E i \in 1..Len(items) : eq_lowercase(items[i], item)
    THEN CHOOSE i \in 1..Len(items) :
            /\ eq_lowercase(items[i], item)
            /\ \A j \in 1..(i - 1) : ~eq_lowercase(items[j], item)
    ELSE 0

\* Vec::remove(index)
vec_remove(v, index) ==
    [i \in 1..(Len(v) - 1) |-> IF i < index THEN v[i] ELSE v[i + 1]]

\* remove_item that reports the item found but leaves it in the room
remove_item_keeps(room, item) ==
    LET index == position(room.items, item) IN
    IF index # 0
    THEN [room |-> room, found |-> TRUE]
    ELSE [room |-> room, found |-> FALSE]

\* Room::remove_item: the room afterwards and the bool returned
remove_item(room, item) ==
    LET index == position(room.items, item) IN
    IF index # 0
    THEN [room |-> [room EXCEPT !.items = vec_remove(room.items, index)],
          found |-> TRUE]
    ELSE [room |-> room, found |-> FALSE]

EntranceHall == "Entrance Hall"

CeremonialAntechamber == "Ceremonial Antechamber"

TreasureRoom == "Treasure Room"

GuardianChamber == "Guardian Chamber"

AncientCrypt == "Ancient Crypt"

TempleExit == "Temple Exit"

GoldenIdol == "golden idol"

Torch == "torch"

AncientMap == "ancient map"

CeremonialDagger == "ceremonial dagger"

entrance ==
    add_item(
    add_exit(add_exit(
    RoomNew(EntranceHall,
        "You stand in the grand entrance hall of the forgotten temple. Ancient symbols cover the walls, and dust particles dance in the beams of light from cracks in the ceiling. The air is thick with the scent of ages past.",
        FALSE, None),
    "North", CeremonialAntechamber), "East", AncientCrypt),
    AncientMap)

antechamber ==
    add_item(
    add_exit(add_exit(add_exit(
    RoomNew(CeremonialAntechamber,
        "This room seems to have been used for pre-ritual preparations. Stone benches line the walls, and faded murals depict priests donning ceremonial garb. A stone altar stands in the center, its surface stained dark from ancient offerings.",
        FALSE, None),
    "South", EntranceHall), "East", TreasureRoom), "West", GuardianChamber),
    CeremonialDagger)

TreasureRoomDescription ==
    "Glinting gold and artifacts fill this small chamber. Ceremonial masks, jeweled daggers, and strange artifacts cover every surface. Despite the wealth displayed here, an ornate stone pedestal in the center stands empty, with a small inscription that reads 'Place the sacred idol to reveal the path.'"

\* treasure_room with its north exit naming a room that does not exist
treasure_room_dangling ==
    add_exit(add_exit(
    RoomNew(TreasureRoom, TreasureRoomDescription, FALSE, None),
    "West", CeremonialAntechamber), "North", "Exit")

treasure_room ==
    add_exit(add_exit(
    RoomNew(TreasureRoom, TreasureRoomDescription, FALSE, None),
    "West", CeremonialAntechamber), "North", TempleExit)

\* idol_chamber whose east exit leads to the Entrance Hall
idol_chamber_one_way ==
    add_item(
    add_exit(
    RoomNew(GuardianChamber,
        "This circular chamber is dominated by a massive stone statue of a seated deity with many arms. Its hollow eyes seem to follow your movement. At its feet lies a small golden idol, gleaming despite the layer of dust covering it.",
        FALSE, None),
    "East", EntranceHall),
    GoldenIdol)

idol_chamber ==
    add_item(
    add_exit(
    RoomNew(GuardianChamber,
        "This circular chamber is dominated by a massive stone statue of a seated deity with many arms. Its hollow eyes seem to follow your movement. At its feet lies a small golden idol, gleaming despite the layer of dust covering it.",
        FALSE, None),
    "East", CeremonialAntechamber),
    GoldenIdol)

\* crypt holding a golden idol of its own next to the torch
crypt_with_idol ==
    add_item(add_item(
    add_exit(
    RoomNew(AncientCrypt,
        "The air is stale in this dark crypt. Stone sarcophagi line the walls, their carved lids depicting the deceased in repose. A faded tapestry on the far wall shows a map of the stars.",
        FALSE, None),
    "West", EntranceHall),
    Torch), GoldenIdol)

crypt ==
    add_item(
    add_exit(
    RoomNew(AncientCrypt,
        "The air is stale in this dark crypt. Stone sarcophagi line the walls, their carved lids depicting the deceased in repose. A faded tapestry on the far wall shows a map of the stars.",
        FALSE, None),
    "West", EntranceHall),
    Torch)

\* temple_exit with its south exit naming a room that does not exist
temple_exit_dangling ==
    add_exit(
    RoomNew(TempleExit, "Sunlight streams through a crack in the stone wall.",
            TRUE, Some(GoldenIdol)),
    "South", "Treasury")

\* temple_exit with a golden idol lying in it
temple_exit_with_idol ==
    add_item(
    add_exit(
    RoomNew(TempleExit,
        "Sunlight streams through a crack in the stone wall, illuminating a narrow passage. This appears to be an exit from the temple, but heavy stone doors block the way. There's a keyhole shaped like an idol in the center of the doors.",
        TRUE, Some(GoldenIdol)),
    "South", TreasureRoom),
    GoldenIdol)

temple_exit ==
    add_exit(
    RoomNew(TempleExit,
        "Sunlight streams through a crack in the stone wall, illuminating a narrow passage. This appears to be an exit from the temple, but heavy stone doors block the way. There's a keyhole shaped like an idol in the center of the doors.",
        TRUE, Some(GoldenIdol)),
    "South", TreasureRoom)

\* create_rooms: the HashMap keyed by room name
create_rooms ==
    LET all == {entrance, antechamber, treasure_room, idol_chamber, crypt, temple_exit}
    IN  [n \in {r.name : r \in all} |-> CHOOSE r \in all : r.name = n]

RoomNames == DOMAIN create_rooms

\* the Direction enum in declaration order
DirectionOrder == <<"North", "East", "South", "West">>

\* how far the iteration order of an exits map may be rotated in this model
MaxRotation == 1

\* An iteration order of a HashMap with the key set keys.  The order of a
\* HashMap is unspecified but fixed while the map is not modified; the orders
\* considered are the declaration order of the keys rotated by k places.
IterationOrder(keys, k) ==
    LET base == SelectSeq(DirectionOrder, LAMBDA d : d \in keys)
        n    == Len(base)
    IN  [i \in 1..n |-> base[((i - 1 + k) % n) + 1]]

-----------------------------------------------------------------------------
(* player.rs *)

\* Player::new
PlayerNew(starting_location) ==
    [location |-> starting_location, inventory |-> <<>>]

\* take_item that puts the item in front of the inventory
take_item_prepends(p, item) ==
    [p EXCEPT !.inventory = <<item>> \o p.inventory]

\* Player::take_item
take_item(p, item) ==
    [p EXCEPT !.inventory = Append(p.inventory, item)]

\* has_item that compares the names as written, letter case included
has_item_exact(p, item) ==
    \E i \in 1..Len(p.inventory) : p.inventory[i] = item

\* Player::has_item
has_item(p, item) ==
    \E i \in 1..Len(p.inventory) : eq_lowercase(p.inventory[i], item)

RECURSIVE inventory_lines(_)
\* the loop of Player::display_inventory
inventory_lines(inv) ==
    IF Len(inv) = 0 THEN ""
    ELSE ("- " \o Head(inv) \o "\n") \o inventory_lines(Tail(inv))

\* Player::display_inventory
display_inventory(p) ==
    IF Len(p.inventory) = 0
    THEN "Your inventory is empty."
    ELSE "You are carrying:\n" \o inventory_lines(p.inventory)

-----------------------------------------------------------------------------
(* input.rs: the Command enum, as [tag, arg] *)

Go(direction) == [tag |-> "Go", arg |-> direction]

Take(item) == [tag |-> "Take", arg |-> item]

Use(item) == [tag |-> "Use", arg |-> item]

Inventory == [tag |-> "Inventory", arg |-> ""]

Look == [tag |-> "Look", arg |-> ""]

Help == [tag |-> "Help", arg |-> ""]

Quit == [tag |-> "Quit", arg |-> ""]

Unknown(input) == [tag |-> "Unknown", arg |-> input]

\* no Command: what last_cmd holds when the latest input did not parse
NoCommand == [tag |-> "None", arg |-> ""]

\* Result<Command, String>
Ok(command) == [ok |-> TRUE, command |-> command, error |-> ""]

Err(error) == [ok |-> FALSE, command |-> NoCommand, error |-> error]

\* read_input: the line read from stdin, trimmed
read_input(line) == trim(line)

\* parse_command that takes an invalid direction for an unknown command
parse_command_direction_unknown(raw) ==
    LET input == to_lowercase(trim(raw))
        all_words == split_whitespace(input)
    IN
    IF Len(input) = 0 THEN Err("Please enter a command.")
    ELSE IF Len(all_words) = 0 THEN Err("Please enter a command.")
    ELSE
    LET command == all_words[1]
        words == Tail(all_words)
    IN
    CASE command \in {"go", "move"} ->
           IF Len(words) = 0
           THEN Err("Go where? Try 'go north', 'go east', 'go south', or 'go west'.")
           ELSE IF from_string(words[1]) # None
                THEN Ok(Go(from_string(words[1])[1]))
                ELSE Ok(Unknown(input))
      [] command \in {"take", "get", "pickup"} ->
           IF Len(words) = 0
           THEN Err("Take what? Please specify an item.")
           ELSE Ok(Take(join(words, " ")))
      [] command = "use" ->
           IF Len(words) = 0
           THEN Err("Use what? Please specify an item.")
           ELSE Ok(Use(join(words, " ")))
      [] command \in {"inventory", "i", "inv"} -> Ok(Inventory)
      [] command \in {"look", "l"} -> Ok(Look)
      [] command \in {"help", "h"} -> Ok(Help)
      [] command \in {"quit", "exit", "q"} -> Ok(Quit)
      [] OTHER -> Ok(Unknown(input))

\* parse_command that does not know the alias pickup
parse_command_without_pickup(raw) ==
    LET input == to_lowercase(trim(raw))
        all_words == split_whitespace(input)
    IN
    IF Len(input) = 0 THEN Err("Please enter a command.")
    ELSE IF Len(all_words) = 0 THEN Err("Please enter a command.")
    ELSE
    LET command == all_words[1]
        words == Tail(all_words)
    IN
    CASE command \in {"go", "move"} ->
           IF Len(words) = 0
           THEN Err("Go where? Try 'go north', 'go east', 'go south', or 'go west'.")
           ELSE IF from_string(words[1]) # None
                THEN Ok(Go(from_string(words[1])[1]))
                ELSE Err("'" \o words[1]
                         \o "' is not a valid direction. Try 'north', 'east', 'south', or 'west'.")
      [] command \in {"take", "get"} ->
           IF Len(words) = 0
           THEN Err("Take what? Please specify an item.")
           ELSE Ok(Take(join(words, " ")))
      [] command = "use" ->
           IF Len(words) = 0
           THEN Err("Use what? Please specify an item.")
           ELSE Ok(Use(join(words, " ")))
      [] command \in {"inventory", "i", "inv"} -> Ok(Inventory)
      [] command \in {"look", "l"} -> Ok(Look)
      [] command \in {"help", "h"} -> Ok(Help)
      [] command \in {"quit", "exit", "q"} -> Ok(Quit)
      [] OTHER -> Ok(Unknown(input))

\* parse_command
parse_command(raw) ==
    LET input == to_lowercase(trim(raw))
        all_words == split_whitespace(input)
    IN
    IF Len(input) = 0 THEN Err("Please enter a command.")
    ELSE IF Len(all_words) = 0 THEN Err("Please enter a command.")
    ELSE
    LET command == all_words[1]
        words == Tail(all_words)
    IN
    CASE command \in {"go", "move"} ->
           IF Len(words) = 0
           THEN Err("Go where? Try 'go north', 'go east', 'go south', or 'go west'.")
           ELSE IF from_string(words[1]) # None
                THEN Ok(Go(from_string(words[1])[1]))
                ELSE Err("'" \o words[1]
                         \o "' is not a valid direction. Try 'north', 'east', 'south', or 'west'.")
      [] command \in {"take", "get", "pickup"} ->
           IF Len(words) = 0
           THEN Err("Take what? Please specify an item.")
           ELSE Ok(Take(join(words, " ")))
      [] command = "use" ->
           IF Len(words) = 0
           THEN Err("Use what? Please specify an item.")
           ELSE Ok(Use(join(words, " ")))
      [] command \in {"inventory", "i", "inv"} -> Ok(Inventory)
      [] command \in {"look", "l"} -> Ok(Look)
      [] command \in {"help", "h"} -> Ok(Help)
      [] command \in {"quit", "exit", "q"} -> Ok(Quit)
      [] OTHER -> Ok(Unknown(input))

-----------------------------------------------------------------------------
(* game.rs *)

\* the Game struct, read from the state variables
Game == [rooms |-> rooms, player |-> player, game_over |-> game_over, message |-> message]

RoomNotFound == "Error: Current room not found."

\* Game::new with the player started in another room
GameNewElsewhere ==
    [rooms     |-> create_rooms,
     player    |-> PlayerNew("Ceremonial Antechamber"),
     game_over |-> FALSE,
     message   |-> ""]

\* Game::new, for a world built by create_rooms
GameNew ==
    [rooms     |-> create_rooms,
     player    |-> PlayerNew("Entrance Hall"),
     game_over |-> FALSE,
     message   |-> ""]

RECURSIVE exits_text(_)
\* the exits loop of Game::look_around, over the map's iteration order
exits_text(order) ==
    IF Len(order) = 0 THEN ""
    ELSE (" " \o to_string(Head(order))) \o exits_text(Tail(order))

RECURSIVE items_text(_)
\* the items loop of Game::look_around
items_text(items) ==
    IF Len(items) = 0 THEN ""
    ELSE ("\n- " \o Head(items)) \o items_text(Tail(items))

\* look_around that shows the message only in a win-exit room
look_around_message_at_exit(g) ==
    IF g.player.location \in DOMAIN g.rooms
    THEN LET current_room == g.rooms[g.player.location]
             d0 == "[ " \o current_room.name \o " ]\n\n" \o current_room.description \o "\n"
             d1 == IF DOMAIN current_room.exits # {}
                   THEN d0 \o "\nExits:" \o exits_text(exits_iter[g.player.location])
                   ELSE d0
             d2 == IF Len(current_room.items) # 0
                   THEN d1 \o "\n\nYou see:" \o items_text(current_room.items)
                   ELSE d1
         IN  IF g.message # "" /\ current_room.is_exit THEN d2 \o "\n\n" \o g.message ELSE d2
    ELSE RoomNotFound

\* Game::look_around
look_around(g) ==
    IF g.player.location \in DOMAIN g.rooms
    THEN LET current_room == g.rooms[g.player.location]
             d0 == "[ " \o current_room.name \o " ]\n\n" \o current_room.description \o "\n"
             d1 == IF DOMAIN current_room.exits # {}
                   THEN d0 \o "\nExits:" \o exits_text(exits_iter[g.player.location])
                   ELSE d0
             d2 == IF Len(current_room.items) # 0
                   THEN d1 \o "\n\nYou see:" \o items_text(current_room.items)
                   ELSE d1
         IN  IF g.message # "" THEN d2 \o "\n\n" \o g.message ELSE d2
    ELSE RoomNotFound

SuccessHint(required_item) ==
    "You've reached the exit with the " \o required_item \o "! Use the item to escape."

BlockedHint(required_item) ==
    "This appears to be an exit, but it's blocked. You need a " \o required_item \o " to proceed."

\* check_win_condition that marks the game as not over while the exit is blocked
check_win_condition_reopens(g) ==
    IF g.player.location \in DOMAIN g.rooms
    THEN LET current_room == g.rooms[g.player.location] IN
         IF current_room.is_exit /\ current_room.required_item # None
         THEN LET required_item == current_room.required_item[1] IN
              IF has_item(g.player, required_item)
              THEN [g EXCEPT !.message = SuccessHint(required_item)]
              ELSE [g EXCEPT !.message = BlockedHint(required_item), !.game_over = FALSE]
         ELSE g
    ELSE g

\* check_win_condition with the two hints exchanged
check_win_condition_swapped(g) ==
    IF g.player.location \in DOMAIN g.rooms
    THEN LET current_room == g.rooms[g.player.location] IN
         IF current_room.is_exit /\ current_room.required_item # None
         THEN LET required_item == current_room.required_item[1] IN
              IF has_item(g.player, required_item)
              THEN [g EXCEPT !.message = BlockedHint(required_item)]
              ELSE [g EXCEPT !.message = SuccessHint(required_item)]
         ELSE g
    ELSE g

\* check_win_condition that also ends the game when the required item is held
check_win_condition_ends_game(g) ==
    IF g.player.location \in DOMAIN g.rooms
    THEN LET current_room == g.rooms[g.player.location] IN
         IF current_room.is_exit /\ current_room.required_item # None
         THEN LET required_item == current_room.required_item[1] IN
              IF has_item(g.player, required_item)
              THEN [g EXCEPT !.message = SuccessHint(required_item), !.game_over = TRUE]
              ELSE [g EXCEPT !.message = BlockedHint(required_item)]
         ELSE g
    ELSE g

\* Game::check_win_condition
check_win_condition(g) ==
    IF g.player.location \in DOMAIN g.rooms
    THEN LET current_room == g.rooms[g.player.location] IN
         IF current_room.is_exit /\ current_room.required_item # None
         THEN LET required_item == current_room.required_item[1] IN
              IF has_item(g.player, required_item)
              THEN [g EXCEPT !.message = SuccessHint(required_item)]
              ELSE [g EXCEPT !.message = BlockedHint(required_item)]
         ELSE g
    ELSE g

\* handle_go that describes the room before moving the player
handle_go_looks_first(g, direction) ==
    IF g.player.location \in DOMAIN g.rooms
    THEN LET current_room == g.rooms[g.player.location] IN
         IF direction \in DOMAIN current_room.exits
         THEN LET moved == [g EXCEPT !.player.location = current_room.exits[direction]]
              IN  [game |-> check_win_condition(moved), out |-> look_around(g)]
         ELSE [game |-> g, out |-> "You can't go " \o to_string(direction) \o " from here."]
    ELSE [game |-> g, out |-> RoomNotFound]

\* handle_go that runs the win-condition check before looking for the exit
handle_go_checks_first(g, direction) ==
    IF g.player.location \in DOMAIN g.rooms
    THEN LET current_room == g.rooms[g.player.location]
             checked == check_win_condition(g)
         IN
         IF direction \in DOMAIN current_room.exits
         THEN LET moved == [checked EXCEPT !.player.location = current_room.exits[direction]]
              IN  [game |-> moved, out |-> look_around(moved)]
         ELSE [game |-> checked,
               out  |-> "You can't go " \o to_string(direction) \o " from here."]
    ELSE [game |-> g, out |-> RoomNotFound]

\* Game::handle_go: the game afterwards and the text returned
handle_go(g, direction) ==
    IF g.player.location \in DOMAIN g.rooms
    THEN LET current_room == g.rooms[g.player.location] IN
         IF direction \in DOMAIN current_room.exits
         THEN LET moved == [g EXCEPT !.player.location = current_room.exits[direction]]
                  checked == check_win_condition(moved)
              IN  [game |-> checked, out |-> look_around(checked)]
         ELSE [game |-> g, out |-> "You can't go " \o to_string(direction) \o " from here."]
    ELSE [game |-> g, out |-> RoomNotFound]

\* handle_take that stores the lowercased name instead of the argument
handle_take_lowercased(g, item) ==
    IF g.player.location \in DOMAIN g.rooms
    THEN LET removed == remove_item(g.rooms[g.player.location], item) IN
         IF removed.found
         THEN [game |-> [g EXCEPT !.rooms[g.player.location] = removed.room,
                                  !.player = take_item(g.player, lowercase[item])],
               out  |-> "You take the " \o item \o "."]
         ELSE [game |-> g, out |-> "There is no " \o item \o " here."]
    ELSE [game |-> g, out |-> RoomNotFound]

\* handle_take that looks for the item in every room, not only the current one
handle_take_anywhere(g, item) ==
    IF g.player.location \in DOMAIN g.rooms
    THEN IF \E n \in DOMAIN g.rooms : remove_item(g.rooms[n], item).found
         THEN LET n == CHOOSE n \in DOMAIN g.rooms : remove_item(g.rooms[n], item).found
              IN  [game |-> [g EXCEPT !.rooms[n] = remove_item(g.rooms[n], item).room,
                                      !.player = take_item(g.player, item)],
                   out  |-> "You take the " \o item \o "."]
         ELSE [game |-> g, out |-> "There is no " \o item \o " here."]
    ELSE [game |-> g, out |-> RoomNotFound]

\* Game::handle_take
handle_take(g, item) ==
    IF g.player.location \in DOMAIN g.rooms
    THEN LET removed == remove_item(g.rooms[g.player.location], item) IN
         IF removed.found
         THEN [game |-> [g EXCEPT !.rooms[g.player.location] = removed.room,
                                  !.player = take_item(g.player, item)],
               out  |-> "You take the " \o item \o "."]
         ELSE [game |-> g, out |-> "There is no " \o item \o " here."]
    ELSE [game |-> g, out |-> RoomNotFound]

EscapeText ==
    "You place the golden idol in the keyhole. With a rumble, the stone doors slowly open, revealing the path to freedom. Sunlight streams in, blinding you momentarily. \n\nCongratulations! You have escaped the forgotten temple!"

TorchText ==
    "You light the torch. The crypt is now illuminated, revealing ancient inscriptions on the walls that were previously hidden in darkness."

MapText ==
    "You examine the ancient map. It shows the layout of the temple, confirming your suspicions about the locations of the rooms. The exit appears to be north of the Treasure Room."

DaggerText ==
    "You place the ceremonial dagger on the altar. Nothing happens, but you feel a sense of respect for the ancient rituals once performed here."

\* the interaction table of handle_use, for a player holding the item
use_table(g, item) ==
    LET current_room == g.rooms[g.player.location] IN
    CASE current_room.name = "Temple Exit" /\ item = "golden idol" ->
           [game |-> [g EXCEPT !.game_over = TRUE], out |-> EscapeText]
      [] current_room.name = "Ancient Crypt" /\ item = "torch" ->
           [game |-> g, out |-> TorchText]
      [] current_room.name = "Entrance Hall" /\ item = "ancient map" ->
           [game |-> g, out |-> MapText]
      [] current_room.name = "Ceremonial Antechamber" /\ item = "ceremonial dagger" ->
           [game |-> g, out |-> DaggerText]
      [] OTHER ->
           [game |-> g, out |-> "You can't use the " \o item \o " here."]

\* handle_use whose exit interaction forgets to set game_over
handle_use_keeps_playing(g, item) ==
    IF has_item(g.player, item)
    THEN IF g.player.location \in DOMAIN g.rooms
         THEN [game |-> g, out |-> use_table(g, item).out]
         ELSE [game |-> g, out |-> RoomNotFound]
    ELSE [game |-> g, out |-> "You don't have a " \o item \o "."]

\* handle_use without the possession check
handle_use_unchecked(g, item) ==
    IF g.player.location \in DOMAIN g.rooms
    THEN use_table(g, item)
    ELSE [game |-> g, out |-> RoomNotFound]

\* handle_use that consumes the item used
handle_use_consumes(g, item) ==
    IF has_item(g.player, item)
    THEN IF g.player.location \in DOMAIN g.rooms
         THEN LET used == use_table(g, item) IN
              [game |-> [used.game EXCEPT !.player.inventory =
                            SelectSeq(g.player.inventory, LAMBDA i : ~eq_lowercase(i, item))],
               out  |-> used.out]
         ELSE [game |-> g, out |-> RoomNotFound]
    ELSE [game |-> g, out |-> "You don't have a " \o item \o "."]

\* Game::handle_use
handle_use(g, item) ==
    IF has_item(g.player, item)
    THEN IF g.player.location \in DOMAIN g.rooms
         THEN use_table(g, item)
         ELSE [game |-> g, out |-> RoomNotFound]
    ELSE [game |-> g, out |-> "You don't have a " \o item \o "."]

\* Game::display_help
display_help ==
    "Available commands:\n- go [direction]: Move in the specified direction (north, east, south, west)\n- take [item]: Pick up an item\n- use [item]: Use an item from your inventory\n- look: Look around the current room\n- inventory: Check your inventory\n- help: Display this help text\n- quit: Exit the game"

\* process_command whose Quit arm only says goodbye
process_command_quit_forgets(g, command) ==
    CASE command.tag = "Go"        -> handle_go(g, command.arg)
      [] command.tag = "Take"      -> handle_take(g, command.arg)
      [] command.tag = "Use"       -> handle_use(g, command.arg)
      [] command.tag = "Inventory" -> [game |-> g, out |-> display_inventory(g.player)]
      [] command.tag = "Look"      -> [game |-> g, out |-> look_around(g)]
      [] command.tag = "Help"      -> [game |-> g, out |-> display_help]
      [] command.tag = "Quit"      -> [game |-> g, out |-> "Thanks for playing! Goodbye."]
      [] command.tag = "Unknown"   -> [game |-> g,
                                       out  |-> "I don't understand '" \o command.arg
                                                \o "'.\nType 'help' for a list of commands."]

\* process_command whose Look arm clears the message once it has been shown
process_command_look_consumes(g, command) ==
    CASE command.tag = "Go"        -> handle_go(g, command.arg)
      [] command.tag = "Take"      -> handle_take(g, command.arg)
      [] command.tag = "Use"       -> handle_use(g, command.arg)
      [] command.tag = "Inventory" -> [game |-> g, out |-> display_inventory(g.player)]
      [] command.tag = "Look"      -> [game |-> [g EXCEPT !.message = ""],
                                       out  |-> look_around(g)]
      [] command.tag = "Help"      -> [game |-> g, out |-> display_help]
      [] command.tag = "Quit"      -> [game |-> [g EXCEPT !.game_over = TRUE],
                                       out  |-> "Thanks for playing! Goodbye."]
      [] command.tag = "Unknown"   -> [game |-> g,
                                       out  |-> "I don't understand '" \o command.arg
                                                \o "'.\nType 'help' for a list of commands."]

\* Game::process_command
process_command(g, command) ==
    CASE command.tag = "Go"        -> handle_go(g, command.arg)
      [] command.tag = "Take"      -> handle_take(g, command.arg)
      [] command.tag = "Use"       -> handle_use(g, command.arg)
      [] command.tag = "Inventory" -> [game |-> g, out |-> display_inventory(g.player)]
      [] command.tag = "Look"      -> [game |-> g, out |-> look_around(g)]
      [] command.tag = "Help"      -> [game |-> g, out |-> display_help]
      [] command.tag = "Quit"      -> [game |-> [g EXCEPT !.game_over = TRUE],
                                       out  |-> "Thanks for playing! Goodbye."]
      [] command.tag = "Unknown"   -> [game |-> g,
                                       out  |-> "I don't understand '" \o command.arg
                                                \o "'.\nType 'help' for a list of commands."]

\* Game::is_game_over
is_game_over == game_over

-----------------------------------------------------------------------------
(* The engine driven by arbitrary commands *)

\* texts submitted as Unknown
UnknownArgs == {"jump"}

\* one process_command call on the game held in the state variables
Submit(command) ==
    \E r \in {process_command(Game, command)} :
    /\ rooms' = r.game.rooms
    /\ player' = r.game.player
    /\ game_over' = r.game.game_over
    /\ message' = r.game.message
    /\ last_cmd' = command
    /\ result' = r.out
    /\ progress' =
          IF /\ command.tag = "Take"
             /\ player.location = GuardianChamber
             /\ eq_lowercase(command.arg, GoldenIdol)
             /\ r.out = "You take the " \o command.arg \o "."
          THEN "taken"
          ELSE IF /\ progress = "taken"
                  /\ command = Go("North")
                  /\ player.location = TreasureRoom
                  /\ r.game.player.location = TempleExit
               THEN "entered"
               ELSE progress

Init ==
    /\ rooms = GameNew.rooms
    /\ \E k \in 0..MaxRotation :
          exits_iter = [n \in RoomNames |-> IterationOrder(DOMAIN create_rooms[n].exits, k)]
    /\ player = GameNew.player
    /\ game_over = GameNew.game_over
    /\ message = GameNew.message
    /\ last_cmd = [tag |-> "New", arg |-> ""]
    /\ result = ""
    /\ pc = "while"
    /\ user_input = ""
    /\ progress = "start"

\* The exits maps are never modified, so their iteration order stays.
ProcessGo ==
    /\ \E direction \in Direction : Submit(Go(direction))
    /\ UNCHANGED <<exits_iter, pc, user_input>>

ProcessTake ==
    /\ \E item \in ItemArgs : Submit(Take(item))
    /\ UNCHANGED <<exits_iter, pc, user_input>>

ProcessUse ==
    /\ \E item \in ItemArgs : Submit(Use(item))
    /\ UNCHANGED <<exits_iter, pc, user_input>>

ProcessInventory ==
    /\ Submit(Inventory)
    /\ UNCHANGED <<exits_iter, pc, user_input>>

ProcessLook ==
    /\ Submit(Look)
    /\ UNCHANGED <<exits_iter, pc, user_input>>

ProcessHelp ==
    /\ Submit(Help)
    /\ UNCHANGED <<exits_iter, pc, user_input>>

ProcessQuit ==
    /\ Submit(Quit)
    /\ UNCHANGED <<exits_iter, pc, user_input>>

ProcessUnknown ==
    /\ \E input \in UnknownArgs : Submit(Unknown(input))
    /\ UNCHANGED <<exits_iter, pc, user_input>>

Next ==
    \/ ProcessGo
    \/ ProcessTake
    \/ ProcessUse
    \/ ProcessInventory
    \/ ProcessLook
    \/ ProcessHelp
    \/ ProcessQuit
    \/ ProcessUnknown

Spec == Init /\ [][Next]_vars

-----------------------------------------------------------------------------
(* main.rs: the console driver *)

\* the lines typed at the prompt
RawLines ==
    {"go north", "go east", "go south", "go west", "move north",
     "take golden idol", "take torch", "take ancient map", "take ceremonial dagger",
     "take gold coin", "get torch", "pickup torch", "Take  Golden Idol",
     "use golden idol", "use torch", "use ancient map", "use ceremonial dagger",
     "Use Golden Idol",
     "look", "l", "inventory", "i", "inv", "help", "h", "quit", "exit", "q", "jump",
     "Jump Up", "", "   ", "go", "take", "use", "go nowhere"}

\* parse_command of every line read_input can return, computed once
parsed == [input \in {read_input(line) : line \in RawLines} |-> parse_command(input)]

\* a loop that never tests is_game_over
while_condition_ignored == TRUE

\* the condition of main's while loop
while_condition == ~is_game_over

\* one turn of the loop whose input parses: the command is processed and the
\* result printed
MainCommand ==
    /\ pc = "while"
    /\ while_condition
    /\ \E line \in RawLines :
          /\ user_input' = read_input(line)
          /\ parsed[user_input'].ok
          /\ Submit(parsed[user_input'].command)
    /\ UNCHANGED <<exits_iter, pc>>

\* one turn of the loop whose input does not parse: the error is printed
MainError ==
    /\ pc = "while"
    /\ while_condition
    /\ \E line \in RawLines :
          /\ user_input' = read_input(line)
          /\ ~parsed[user_input'].ok
          /\ result' = parsed[user_input'].error
          /\ last_cmd' = NoCommand
    /\ UNCHANGED <<rooms, player, game_over, message, exits_iter, pc, progress>>

\* the loop ends
MainExit ==
    /\ pc = "while"
    /\ ~while_condition
    /\ pc' = "exit"
    /\ UNCHANGED <<rooms, player, game_over, message, exits_iter, last_cmd, result, user_input,
                    progress>>

ConsoleNext ==
    \/ MainCommand
    \/ MainError
    \/ MainExit

ConsoleSpec == Init /\ [][ConsoleNext]_vars

-----------------------------------------------------------------------------
(* Properties *)

\* the exits and items of the room the player is in
CurrentExits == rooms[player.location].exits

CurrentItems == rooms[player.location].items

\* whether some entry of the sequence items equals x ignoring letter case
Matches(items, x) == \E i \in 1..Len(items) : lowercase[items[i]] = lowercase[x]

\* whether text ends with pat
ends_with(text, pat) ==
    /\ Len(pat) <= Len(text)
    /\ SubSeq(text, Len(text) - Len(pat) + 1, Len(text)) = pat

\* the parts of the game state other than the terminal flag
UnchangedButFlag == rooms' = rooms /\ player' = player /\ message' = message

UnchangedGame == UnchangedButFlag /\ game_over' = game_over

\* C1: the player's location always names a room of the rooms map, so no
\* command and no look_around call returns "Error: Current room not found."
C1_LocationIsARoom ==
    /\ player.location \in DOMAIN rooms
    /\ result # "Error: Current room not found."
    /\ look_around(Game) # "Error: Current room not found."

C1_Witness ==
    /\ last_cmd = Go("North")
    /\ player.location = "Temple Exit"
    /\ Len(player.inventory) = 4

\* C2: Use("golden idol") in the Temple Exit while holding the golden idol sets
\* the terminal flag and returns the escape text; Use("golden idol") without
\* the golden idol returns the "don't have" message and leaves the flag alone.
C2_UseGoldenIdol ==
    [][last_cmd' = Use("golden idol") =>
         IF Matches(player.inventory, "golden idol")
         THEN player.location = "Temple Exit" =>
                 /\ game_over'
                 /\ result' = EscapeText
                 /\ contains(result', "Congratulations! You have escaped the forgotten temple!")
         ELSE /\ result' = "You don't have a golden idol."
              /\ game_over' = game_over]_vars

C2_Witness ==
    /\ last_cmd = Use("golden idol")
    /\ player.location = "Temple Exit"
    /\ Matches(player.inventory, "golden idol")
    /\ game_over
    /\ result = EscapeText

\* C3: the terminal flag goes from false to true only on Quit or on
\* Use(golden idol) in the Temple Exit with the idol held; a Go into the
\* Temple Exit with the idol held leaves it false.
C3_OnlyQuitOrWinningUse ==
    [][(~game_over /\ game_over') =>
          \/ last_cmd' = Quit
          \/ /\ last_cmd' = Use("golden idol")
             /\ player.location = "Temple Exit"
             /\ Matches(player.inventory, "golden idol")]_vars

C3_Witness ==
    /\ last_cmd = Go("North")
    /\ player.location = "Temple Exit"
    /\ Matches(player.inventory, "golden idol")
    /\ message = "You've reached the exit with the golden idol! Use the item to escape."
    /\ ~game_over

\* C4: item-name arguments are compared ignoring letter case everywhere: a
\* Take or Use whose argument differs from an item's name only in letter case
\* has the effect of the exact name; any casing of "golden idol" used in the
\* Temple Exit while holding the idol ends the game.
C4_CaseInsensitiveEverywhere ==
    [][/\ (last_cmd'.tag = "Take" /\ Matches(CurrentItems, last_cmd'.arg)) =>
            Len(rooms'[player.location].items) = Len(CurrentItems) - 1
       /\ (last_cmd'.tag = "Use" /\ Matches(player.inventory, last_cmd'.arg)) =>
            /\ result' # "You don't have a " \o last_cmd'.arg \o "."
            /\ (player.location = "Temple Exit"
                  /\ to_lowercase(last_cmd'.arg) = "golden idol") =>
                  (game_over' /\ result' = EscapeText)]_vars

\* C5: a Go in a direction that is an exit of the current room moves the player
\* to exactly the exit's target, returns a text containing the target room's
\* name, and leaves room items, inventory and terminal flag unchanged.
C5_GoAlongExit ==
    [][\A d \in Direction :
          (last_cmd' = Go(d) /\ d \in DOMAIN CurrentExits) =>
             /\ player'.location = CurrentExits[d]
             /\ contains(result', CurrentExits[d])
             /\ rooms' = rooms
             /\ player'.inventory = player.inventory
             /\ game_over' = game_over]_vars

C5_Witness ==
    /\ last_cmd = Go("West")
    /\ player.location = "Guardian Chamber"
    /\ contains(result, "[ Guardian Chamber ]")

\* C6: a Go in a direction that is not an exit of the current room returns
\* "You can't go {direction} from here." and changes nothing.
C6_GoWithoutExit ==
    [][\A d \in Direction :
          (last_cmd' = Go(d) /\ d \notin DOMAIN CurrentExits) =>
             /\ result' = "You can't go " \o to_lowercase(d) \o " from here."
             /\ UnchangedGame]_vars

C6_Witness ==
    /\ last_cmd = Go("North")
    /\ player.location = "Ceremonial Antechamber"
    /\ result = "You can't go north from here."

\* C7: Take(x) with a match for x (ignoring case) in the current room removes
\* exactly the first match from that room, appends x verbatim to the
\* inventory, returns "You take the {x}." and changes nothing else.
C7_TakePresent ==
    [][\A x \in ItemArgs :
          (last_cmd' = Take(x) /\ Matches(CurrentItems, x)) =>
             /\ \E i \in 1..Len(CurrentItems) :
                   /\ lowercase[CurrentItems[i]] = lowercase[x]
                   /\ ~Matches(SubSeq(CurrentItems, 1, i - 1), x)
                   /\ rooms'[player.location].items =
                         SubSeq(CurrentItems, 1, i - 1)
                            \o SubSeq(CurrentItems, i + 1, Len(CurrentItems))
             /\ player'.inventory = player.inventory \o <<x>>
             /\ result' = "You take the " \o x \o "."
             /\ \A n \in DOMAIN rooms : n # player.location => rooms'[n] = rooms[n]
             /\ DOMAIN rooms' = DOMAIN rooms
             /\ player'.location = player.location
             /\ message' = message
             /\ game_over' = game_over]_vars

C7_Witness ==
    /\ last_cmd = Take("Golden Idol")
    /\ player.location = "Guardian Chamber"
    /\ rooms["Guardian Chamber"].items = <<>>
    /\ player.inventory[Len(player.inventory)] = "Golden Idol"
    /\ result = "You take the Golden Idol."

\* C8: Take(x) with no match for x in the current room (x may lie in another
\* room or in the inventory) returns "There is no {x} here." and changes
\* nothing.
C8_TakeAbsent ==
    [][\A x \in ItemArgs :
          (last_cmd' = Take(x) /\ ~Matches(CurrentItems, x)) =>
             /\ result' = "There is no " \o x \o " here."
             /\ UnchangedGame]_vars

C8_Witness ==
    /\ last_cmd = Take("golden idol")
    /\ result = "There is no golden idol here."
    /\ player.location = "Entrance Hall"
    /\ rooms["Guardian Chamber"].items = <<"golden idol">>
    /\ Matches(player.inventory, "torch")

\* C9: Use(x) for an x the inventory does not hold (ignoring case) returns
\* "You don't have a {x}." and changes nothing, in every room.
C9_UseNotHeld ==
    [][\A x \in ItemArgs :
          (last_cmd' = Use(x) /\ ~Matches(player.inventory, x)) =>
             /\ result' = "You don't have a " \o x \o "."
             /\ UnchangedGame]_vars

C9_Witness ==
    /\ last_cmd = Use("Golden Idol")
    /\ player.location = "Temple Exit"
    /\ ~Matches(player.inventory, "golden idol")
    /\ result = "You don't have a Golden Idol."
    /\ ~game_over

\* C10: a Use changes neither inventory, room items, location nor message; it
\* can change only the terminal flag, and only in the Temple Exit / golden
\* idol interaction.
C10_UseFrame ==
    [][last_cmd'.tag = "Use" =>
          /\ UnchangedButFlag
          /\ game_over' # game_over =>
                /\ player.location = "Temple Exit"
                /\ last_cmd'.arg = "golden idol"
                /\ Matches(player.inventory, "golden idol")]_vars

C10_Witness ==
    /\ last_cmd = Use("torch")
    /\ player.location = "Ancient Crypt"
    /\ result = TorchText
    /\ Matches(player.inventory, "torch")

\* C11: Finished is terminal: once the terminal flag is true it is true after
\* every further process_command call, whatever the command.
C11_FinishedIsTerminal ==
    [][game_over => game_over']_vars

C11_Witness ==
    /\ game_over
    /\ last_cmd = Go("North")
    /\ player.location = "Temple Exit"
    /\ ~Matches(player.inventory, "golden idol")

\* C12: Quit sets the terminal flag in every state and Help leaves it as it
\* is; neither changes location, inventory, room items or message.
C12_HelpAndQuit ==
    [][/\ last_cmd' = Quit =>
            (game_over' /\ UnchangedButFlag /\ result' = "Thanks for playing! Goodbye.")
       /\ last_cmd' = Help =>
            (UnchangedGame /\ contains(result', "Available commands:"))]_vars

C12_Witness ==
    /\ last_cmd = Quit
    /\ game_over
    /\ player.location = "Ancient Crypt"
    /\ Matches(player.inventory, "torch")
    /\ result = "Thanks for playing! Goodbye."

\* C13: after a successful Go into a room flagged as a win-exit with a required
\* item, the message is the success hint if the inventory holds that item
\* (ignoring case) and the blocked hint otherwise; a successful Go into any
\* other room leaves the message as it was.
C13_HintAfterGo ==
    [][\A d \in Direction :
          (last_cmd' = Go(d) /\ d \in DOMAIN CurrentExits) =>
             LET target == rooms[CurrentExits[d]] IN
             IF target.is_exit /\ target.required_item # None
             THEN LET required == target.required_item[1] IN
                  IF Matches(player.inventory, required)
                  THEN message' = "You've reached the exit with the " \o required
                                     \o "! Use the item to escape."
                  ELSE message' = "This appears to be an exit, but it's blocked. You need a "
                                     \o required \o " to proceed."
             ELSE message' = message]_vars

C13_Witness ==
    /\ last_cmd = Go("North")
    /\ player.location = "Temple Exit"
    /\ ~Matches(player.inventory, "golden idol")
    /\ ~game_over
    /\ message = "This appears to be an exit, but it's blocked. You need a golden idol to proceed."

\* C14: the message is empty from the new game on, changes only on a successful
\* Go into the Temple Exit, and is never cleared: once set, the text of every
\* Look and of every successful Go, in any room, ends with the message.
C14_MessageLingers ==
    /\ message = ""
    /\ [][/\ message' # message =>
               /\ last_cmd'.tag = "Go"
               /\ last_cmd'.arg \in DOMAIN CurrentExits
               /\ player'.location = "Temple Exit"
          /\ message # "" => message' # ""
          /\ ( /\ message' # ""
               /\ \/ last_cmd' = Look
                  \/ last_cmd'.tag = "Go" /\ last_cmd'.arg \in DOMAIN CurrentExits ) =>
               ends_with(result', "\n\n" \o message')]_vars

C14_Witness ==
    /\ last_cmd = Look
    /\ player.location = "Entrance Hall"
    /\ message = "This appears to be an exit, but it's blocked. You need a golden idol to proceed."
    /\ Matches(player.inventory, "golden idol")
    /\ ends_with(result, message)

\* C15: Look, Inventory and Unknown change nothing, and the text a Look
\* returns is the text look_around returns in the state the Look leaves
\* behind, so a second look with nothing in between returns the same text.
C15_LookIsReadOnly ==
    [][/\ last_cmd'.tag \in {"Look", "Inventory", "Unknown"} => UnchangedGame
       /\ last_cmd' = Look => result' = look_around(Game)']_vars

C15_Witness ==
    /\ last_cmd = Look
    /\ player.location = "Temple Exit"
    /\ message # ""
    /\ result = look_around(Game)

\* C16: the world is fixed except for item removal: the room names and each
\* room's exits, is_exit and required_item never change, and a room's items
\* change only by losing one entry through a successful Take made in that room.
C16_WorldIsFixed ==
    [][/\ DOMAIN rooms' = DOMAIN rooms
       /\ \A n \in DOMAIN rooms :
             /\ rooms'[n].name = rooms[n].name
             /\ rooms'[n].exits = rooms[n].exits
             /\ rooms'[n].is_exit = rooms[n].is_exit
             /\ rooms'[n].required_item = rooms[n].required_item
             /\ rooms'[n].items # rooms[n].items =>
                   /\ last_cmd'.tag = "Take"
                   /\ n = player.location
                   /\ result' = "You take the " \o last_cmd'.arg \o "."
                   /\ \E i \in 1..Len(rooms[n].items) :
                         rooms'[n].items = SubSeq(rooms[n].items, 1, i - 1)
                                              \o SubSeq(rooms[n].items, i + 1, Len(rooms[n].items))]_vars

C16_Witness ==
    /\ last_cmd = Take("torch")
    /\ player.location = "Ancient Crypt"
    /\ rooms["Ancient Crypt"].items = <<>>
    /\ rooms["Guardian Chamber"].items = <<"golden idol">>
    /\ rooms["Ancient Crypt"].exits = create_rooms["Ancient Crypt"].exits

\* C17: every exit target of every room names a room of the rooms map.
C17_NoDanglingExits ==
    \A n \in DOMAIN rooms :
        \A d \in DOMAIN rooms[n].exits : rooms[n].exits[d] \in DOMAIN rooms

C17_Witness ==
    /\ last_cmd = Go("South")
    /\ player.location = "Treasure Room"
    /\ Len(player.inventory) = 4

\* C18: a new game has the player in "Entrance Hall", an empty inventory, the
\* terminal flag false, an empty message and the four items in their rooms.
C18_NewGame ==
    last_cmd.tag = "New" =>
        /\ player.location = "Entrance Hall"
        /\ player.inventory = <<>>
        /\ game_over = FALSE
        /\ message = ""
        /\ rooms["Guardian Chamber"].items = <<"golden idol">>
        /\ rooms["Ancient Crypt"].items = <<"torch">>
        /\ rooms["Entrance Hall"].items = <<"ancient map">>
        /\ rooms["Ceremonial Antechamber"].items = <<"ceremonial dagger">>
        /\ rooms["Treasure Room"].items = <<>>
        /\ rooms["Temple Exit"].items = <<>>

C18_Witness ==
    /\ last_cmd.tag = "New"
    /\ result = ""
    /\ player = PlayerNew("Entrance Hall")

\* C19: the console loop tests is_game_over before each read: once the
\* terminal flag is set the loop exits without reading or submitting anything
\* more, and the loop never exits while the flag is false.
C19_LoopStopsWhenOver ==
    [][/\ game_over =>
            /\ pc' = "exit"
            /\ UnchangedGame
            /\ UNCHANGED <<last_cmd, result, user_input>>
       /\ pc' = "exit" => game_over]_vars

C19_Witness ==
    /\ pc = "exit"
    /\ game_over
    /\ user_input = "Use Golden Idol"
    /\ last_cmd = Use("golden idol")
    /\ result = EscapeText

\* C20: empty input, a go/take/use verb without argument and a go verb with a
\* first argument that is no direction are parse errors: the driver reports
\* the error string, no command is processed and the game is unchanged.
C20_ParseErrorsStayOutside ==
    [][(pc = "while" /\ pc' = "while"
          /\ user_input' \in {"", "go", "take", "use", "go nowhere"}) =>
          /\ last_cmd' = NoCommand
          /\ UnchangedGame
          /\ result' =
               CASE user_input' = "" -> "Please enter a command."
                 [] user_input' = "go" ->
                      "Go where? Try 'go north', 'go east', 'go south', or 'go west'."
                 [] user_input' = "take" -> "Take what? Please specify an item."
                 [] user_input' = "use" -> "Use what? Please specify an item."
                 [] user_input' = "go nowhere" ->
                      "'nowhere' is not a valid direction. Try 'north', 'east', 'south', or 'west'."]_vars

C20_Witness ==
    /\ pc = "while"
    /\ user_input = "go nowhere"
    /\ last_cmd = NoCommand
    /\ result = "'nowhere' is not a valid direction. Try 'north', 'east', 'south', or 'west'."
    /\ player.location = "Guardian Chamber"
    /\ Matches(player.inventory, "golden idol")

\* the canonical verb of the family an alias belongs to
CanonicalVerb(word) ==
    CASE word = "move" -> "go"
      [] word \in {"get", "pickup"} -> "take"
      [] word \in {"i", "inv"} -> "inventory"
      [] word = "l" -> "look"
      [] word = "h" -> "help"
      [] word \in {"exit", "q"} -> "quit"
      [] OTHER -> word

\* what a non-empty line is expected to parse to, by the canonical verb of its
\* first token and the tokens after it; NoCommand where the canonical verb
\* lacks its argument
ExpectedCommand ==
    [input \in (DOMAIN parsed) \ {""} |->
        LET lowered == to_lowercase(input)
            tokens == split_whitespace(lowered)
            verb == CanonicalVerb(tokens[1])
            args == Tail(tokens)
        IN  CASE verb = "go" ->
                   IF Len(args) > 0 /\ args[1] \in {"north", "east", "south", "west"}
                   THEN Go(CHOOSE d \in Direction : to_string(d) = args[1])
                   ELSE NoCommand
              [] verb = "take" -> IF Len(args) > 0 THEN Take(join(args, " ")) ELSE NoCommand
              [] verb = "use" -> IF Len(args) > 0 THEN Use(join(args, " ")) ELSE NoCommand
              [] verb = "inventory" -> Inventory
              [] verb = "look" -> Look
              [] verb = "help" -> Help
              [] verb = "quit" -> Quit
              [] OTHER -> Unknown(lowered)]

\* C21: parse_command classifies a line by its first whitespace-delimited
\* token without regard to letter case: an alias gives the command its
\* family's canonical verb gives with the same arguments, and any other
\* non-empty first token gives Unknown carrying the lowercased input, never
\* an error.
C21_AliasesAndUnknown ==
    [][(pc = "while" /\ pc' = "while" /\ user_input' # "") =>
          last_cmd' = ExpectedCommand[user_input']]_vars

C21_Witness ==
    /\ pc = "while"
    /\ user_input = "pickup torch"
    /\ last_cmd = Take("torch")
    /\ result = "You take the torch."
    /\ player.location = "Ancient Crypt"

\* a is a prefix of b
IsPrefix(a, b) == Len(a) <= Len(b) /\ SubSeq(b, 1, Len(a)) = a

RECURSIVE BulletsFrom(_, _)
\* one bulleted line for each entry of inv from index i on, in index order
BulletsFrom(inv, i) ==
    IF i > Len(inv) THEN ""
    ELSE "- " \o inv[i] \o "\n" \o BulletsFrom(inv, i + 1)

\* C22: the inventory is append-only: every step leaves the inventory it
\* found as a prefix of the inventory it produces, so no entry is removed or
\* reordered, and the inventory summary lists the entries in the order they
\* were taken.
C22_InventoryAppendOnly ==
    [][/\ IsPrefix(player.inventory, player'.inventory)
       /\ last_cmd' = Inventory =>
             result' = IF Len(player'.inventory) = 0
                       THEN "Your inventory is empty."
                       ELSE "You are carrying:\n" \o BulletsFrom(player'.inventory, 1)]_vars

C22_Witness ==
    /\ last_cmd = Inventory
    /\ player.inventory = <<"torch", "Golden Idol", "ancient map">>
    /\ result = "You are carrying:\n- torch\n- Golden Idol\n- ancient map\n"

\* how many entries of the rooms' item lists and of the inventory name item,
\* letter case aside
Occurrences(item) ==
    Cardinality({e \in UNION {{<<n, i>> : i \in 1..Len(rooms[n].items)} : n \in DOMAIN rooms} :
                    eq_lowercase(rooms[e[1]].items[e[2]], item)})
    + Cardinality({i \in 1..Len(player.inventory) : eq_lowercase(player.inventory[i], item)})

\* C23: each of the four items of the fixture, compared without regard to
\* letter case, occurs exactly once across all rooms' item lists and the
\* inventory, so no item is duplicated or lost and the inventory never holds
\* two entries for the same item.
C23_ItemConservation ==
    \A item \in {"golden idol", "torch", "ancient map", "ceremonial dagger"} :
        Occurrences(item) = 1

C23_Witness ==
    /\ last_cmd = Take("Golden Idol")
    /\ result = "You take the Golden Idol."
    /\ Len(player.inventory) = 4
    /\ \A n \in DOMAIN rooms : rooms[n].items = <<>>

\* the longest command sequence the plan below needs
MaxPlan == 8

\* The next command of a plan that ends the game by the winning Use: fetch
\* the golden idol from the Guardian Chamber unless it is held, then walk to
\* the Temple Exit and use it there.
PlanCommand(g) ==
    LET at == g.player.location IN
    IF has_item(g.player, "golden idol")
    THEN CASE at = "Temple Exit" -> Use("golden idol")
           [] at = "Treasure Room" -> Go("North")
           [] at = "Ceremonial Antechamber" -> Go("East")
           [] at = "Entrance Hall" -> Go("North")
           [] at = "Guardian Chamber" -> Go("East")
           [] OTHER -> Go("West")
    ELSE CASE at = "Guardian Chamber" -> Take("golden idol")
           [] at = "Temple Exit" -> Go("South")
           [] at = "Entrance Hall" -> Go("North")
           [] OTHER -> Go("West")

RECURSIVE PlanWins(_, _)
\* following the plan from g, Use("golden idol") in the Temple Exit sets the
\* terminal flag after at most n commands
PlanWins(g, n) ==
    IF PlanCommand(g) = Use("golden idol")
    THEN /\ n >= 1
         /\ g.player.location = "Temple Exit"
         /\ process_command(g, Use("golden idol")).game.game_over
    ELSE /\ n > 1
         /\ PlanWins(process_command(g, PlanCommand(g)).game, n - 1)

RECURSIVE ReachableFrom(_, _)
\* the rooms reachable from the rooms in seen along at most n more exits
ReachableFrom(seen, n) ==
    IF n = 0 THEN seen
    ELSE ReachableFrom(
            seen \cup {rooms[e[1]].exits[e[2]] :
                         e \in UNION {{<<a, d>> : d \in DOMAIN rooms[a].exits} :
                                        a \in seen \cap DOMAIN rooms}},
            n - 1)

\* C24: the game has no dead ends: in every reachable state whose terminal
\* flag is false, every room can reach every other room, the golden idol is
\* in the Guardian Chamber or in the inventory, and a finite sequence of
\* commands exists after which Use("golden idol") in the Temple Exit sets the
\* terminal flag.
C24_NoDeadEnds ==
    ~game_over =>
        /\ \A a \in DOMAIN rooms : ReachableFrom({a}, Cardinality(DOMAIN rooms)) = DOMAIN rooms
        /\ \/ Matches(rooms["Guardian Chamber"].items, "golden idol")
           \/ Matches(player.inventory, "golden idol")
        /\ PlanWins(Game, MaxPlan)

C24_Witness ==
    /\ ~game_over
    /\ player.location = "Ancient Crypt"
    /\ player.inventory = <<"torch", "ancient map">>
    /\ PlanWins(Game, 8)
    /\ ~PlanWins(Game, 7)

\* C25: the winning Use, the one that sets the terminal flag or returns the
\* escape text, is preceded by a successful Take of the golden idol issued in
\* the Guardian Chamber and, after that Take, by a successful Go(North) from
\* the Treasure Room into the Temple Exit.
C25_WinNeedsIdolRoute ==
    [][(/\ last_cmd'.tag = "Use"
        /\ \/ ~game_over /\ game_over'
           \/ result' = EscapeText) => progress = "entered"]_vars

C25_Witness ==
    /\ game_over
    /\ last_cmd = Use("golden idol")
    /\ result = EscapeText
    /\ progress = "entered"
    /\ player.inventory = <<"ancient map", "Golden Idol">>

\* C26: whenever the player is in the Temple Exit the message agrees with
\* the inventory: it is the success hint if the inventory holds the golden
\* idol and the blocked hint otherwise.
C26_HintAgreesAtExit ==
    player.location = "Temple Exit" =>
        message = IF Matches(player.inventory, "golden idol")
                  THEN "You've reached the exit with the golden idol! Use the item to escape."
                  ELSE "This appears to be an exit, but it's blocked. You need a golden idol to proceed."

C26_Witness ==
    /\ player.location = "Temple Exit"
    /\ last_cmd = Take("golden idol")
    /\ result = "There is no golden idol here."
    /\ player.inventory = <<"torch">>
    /\ message = "This appears to be an exit, but it's blocked. You need a golden idol to proceed."

\* the direction opposite to d
Opposite(d) ==
    CASE d = "North" -> "South"
      [] d = "South" -> "North"
      [] d = "East" -> "West"
      [] d = "West" -> "East"

\* C27: movement is reversible: a Go(d) that succeeds takes an exit that has
\* a matching exit in the opposite direction back to its source, and an
\* immediately following Go(opposite of d) succeeds too and returns the player
\* to the room the first Go started from.
C27_MovementReversible ==
    [][(last_cmd'.tag = "Go" /\ last_cmd'.arg \in DOMAIN CurrentExits) =>
          /\ player'.location = CurrentExits[last_cmd'.arg]
          /\ player'.location \in DOMAIN rooms
          /\ Opposite(last_cmd'.arg) \in DOMAIN rooms[player'.location].exits
          /\ rooms[player'.location].exits[Opposite(last_cmd'.arg)] = player.location
          /\ \E back \in {process_command(Game', Go(Opposite(last_cmd'.arg)))} :
                /\ back.game.player.location = player.location
                /\ back.out # "You can't go " \o to_string(Opposite(last_cmd'.arg))
                                 \o " from here."
                /\ back.out # RoomNotFound]_vars

C27_Witness ==
    /\ last_cmd = Go("North")
    /\ player.location = "Temple Exit"
    /\ Matches(player.inventory, "golden idol")
    /\ process_command(Game, Go("South")).game.player.location = "Treasure Room"
    /\ process_command(Game, Go("North")).out = "You can't go north from here."

====
